---- MODULE Spec2Model ----
(***************************************************************************)
(* Model of celery-exporter-ng (src/main.py): the task cache queued_tasks, *)
(* the five Prometheus instruments, the three event handlers registered    *)
(* with the Celery event receiver, the mutex they take, the scrape of the  *)
(* tasks_captured gauge and the start-up / capture sequence of __main__.   *)
(*                                                                         *)
(* Two specifications:                                                     *)
(*   Spec      the handlers driven by an arbitrary event source that may   *)
(*             call them from several threads, plus the scrape thread;     *)
(*   MainSpec  the process as __main__ runs it: start-up, one receiver     *)
(*             thread, recv.capture(limit=MAX_TASKS_CAPTURED).             *)
(***************************************************************************)
EXTENDS Integers, Sequences, FiniteSets, TLC

(***************************************************************************)
(* Bounds of the model.                                                    *)
(***************************************************************************)
\* capacity of the cache and event limit of capture (default 100000; an
\* environment setting, kept small here)
MAX_TASKS_CAPTURED == 2
\* event timestamps range over 0..MaxTs
MaxTs == 1
\* number of events the event source delivers in Spec
MaxEvents == 4

TaskIds == {"A", "B", "C"}
Queues == {"q1", "q2"}
TaskNames == {"foo"}
Workers == {"w1", "w2"}
Timestamps == 0..MaxTs
\* threads from which the event source may call the handlers
Threads == {"t1", "t2"}
DoneTypes == {"task-succeeded", "task-failed", "task-revoked"}
States == {"succeeded", "failed", "revoked"}

\* the events the receiver dispatches to a handler
SentEvents ==
    [type : {"task-sent"}, uuid : TaskIds, timestamp : Timestamps,
     routing_key : Queues, name : TaskNames]
StartedEvents ==
    [type : {"task-started"}, uuid : TaskIds, timestamp : Timestamps,
     hostname : Workers]
DoneEvents ==
    [type : DoneTypes, uuid : TaskIds, timestamp : Timestamps,
     hostname : Workers]
NoThread == "-"

VARIABLES
    queued_tasks,     \* the LimitedSizeDict: records in insertion order
    queue_length,     \* Gauge  [queue, task_name]
    tasks_running,    \* Gauge  [queue, task_name, worker]
    waiting_time,     \* Summary [queue, task_name]: count and sum
    execution_stats,  \* Summary [queue, task_name, worker, state]
    tasks_captured,   \* last value the tasks_captured gauge returned
    mutex,            \* thread holding the lock, NoThread when free
    pc,               \* per thread: where it is in a handler
    task_id,          \* per thread: the handler's local task_id
    raised,           \* a handler raised (KeyError on a missing record)
    main_pc,          \* position of __main__
    BROKER_URL,       \* the BROKER_URL setting of the environment
    exit_status,      \* <<>> while the process runs, <<status>> once it ended
    n_events,         \* events the event source has delivered so far
    acct              \* history: per task id, what was recorded for it

metrics == <<queue_length, tasks_running, waiting_time, execution_stats>>
vars == <<queued_tasks, queue_length, tasks_running, waiting_time,
          execution_stats, tasks_captured, mutex, pc, task_id, raised,
          main_pc, BROKER_URL, exit_status, n_events, acct>>
\* the process environment and exit status, which no handler touches
process == <<BROKER_URL, exit_status>>

(***************************************************************************)
(* LimitedSizeDict (utils.py): an insertion-ordered mapping with a size    *)
(* limit.                                                                  *)
(***************************************************************************)
Keys(d) == {d[i].uuid : i \in 1..Len(d)}
Has(d, k) == k \in Keys(d)
IndexOf(d, k) == CHOOSE i \in 1..Len(d) : d[i].uuid = k
GetItem(d, k) == d[IndexOf(d, k)]
RemoveAt(d, i) == SubSeq(d, 1, i - 1) \o SubSeq(d, i + 1, Len(d))
Pop(d, k) == IF Has(d, k) THEN RemoveAt(d, IndexOf(d, k)) ELSE d

\* the limit taken one too large
size_limit_plus_one == MAX_TASKS_CAPTURED + 1

size_limit == MAX_TASKS_CAPTURED

\* Put: overwrite in place; or, when the dictionary is at its limit, evict
\* the oldest-inserted record and then insert
SetItem(d, k, v) ==
    LET rec == [uuid |-> k, ts |-> v.ts, queue |-> v.queue, taskname |-> v.taskname]
    IN IF Has(d, k)
       THEN [d EXCEPT ![IndexOf(d, k)] = rec]
       ELSE IF Len(d) >= size_limit /\ Len(d) > 0
            THEN Append(Tail(d), rec)
            ELSE Append(d, rec)

\* queued_tasks[task_id]['ts'] = value: the record is mutated in place
SetTs(d, k, value) == [d EXCEPT ![IndexOf(d, k)].ts = value]

(***************************************************************************)
(* prometheus_client instruments.                                          *)
(***************************************************************************)
QLabels == Queues \X TaskNames
RLabels == Queues \X TaskNames \X Workers
ELabels == Queues \X TaskNames \X Workers \X States

GaugeInc(g, l) == [g EXCEPT ![l] = @ + 1]
GaugeDec(g, l) == [g EXCEPT ![l] = @ - 1]
Observe(s, l, amount) ==
    [s EXCEPT ![l] = [count |-> @.count + 1, sum |-> @.sum + amount]]

strip_prefix_from_event(type) ==
    CASE type = "task-succeeded" -> "succeeded"
      [] type = "task-failed" -> "failed"
      [] type = "task-revoked" -> "revoked"

(***************************************************************************)
(* The bodies of the three handlers of my_monitor, as they run inside      *)
(* "with mutex:".                                                          *)
(***************************************************************************)
\* get_sent_time on a dictionary that refuses a new key when it is full
get_sent_time_rejecting(e) ==
    LET k == e.uuid
        full == ~Has(queued_tasks, k) /\ Len(queued_tasks) >= size_limit
        stored == IF full THEN queued_tasks
                  ELSE SetItem(queued_tasks, k,
                               [ts |-> e.timestamp, queue |-> e.routing_key,
                                taskname |-> e.name])
    IN /\ queued_tasks' = stored
       /\ queue_length' =
              IF Has(stored, k)
              THEN GaugeInc(queue_length, <<e.routing_key, e.name>>)
              ELSE queue_length
       /\ UNCHANGED <<tasks_running, waiting_time, execution_stats, raised>>

get_sent_time(e) ==
    LET k == e.uuid
        stored == SetItem(queued_tasks, k,
                          [ts |-> e.timestamp, queue |-> e.routing_key,
                           taskname |-> e.name])
    IN /\ queued_tasks' = stored
       /\ queue_length' =
              IF Has(stored, k)
              THEN GaugeInc(queue_length, <<e.routing_key, e.name>>)
              ELSE queue_length
       /\ UNCHANGED <<tasks_running, waiting_time, execution_stats, raised>>

\* get_started_time that does not store the event's timestamp (line 71 left out)
get_started_time_keeps_ts(e) ==
    LET k == e.uuid
    IN IF Has(queued_tasks, k)
       THEN LET r == GetItem(queued_tasks, k)
                lag == e.timestamp - r.ts
            IN /\ waiting_time' = Observe(waiting_time, <<r.queue, r.taskname>>, lag)
               /\ queue_length' = GaugeDec(queue_length, <<r.queue, r.taskname>>)
               /\ tasks_running' =
                      GaugeInc(tasks_running, <<r.queue, r.taskname, e.hostname>>)
               /\ UNCHANGED <<queued_tasks, execution_stats, raised>>
       ELSE UNCHANGED <<queued_tasks, queue_length, tasks_running, waiting_time,
                        execution_stats, raised>>

\* get_started_time that removes the record once the task has started
get_started_time_popping(e) ==
    LET k == e.uuid
    IN IF Has(queued_tasks, k)
       THEN LET r == GetItem(queued_tasks, k)
                lag == e.timestamp - r.ts
            IN /\ waiting_time' = Observe(waiting_time, <<r.queue, r.taskname>>, lag)
               /\ queue_length' = GaugeDec(queue_length, <<r.queue, r.taskname>>)
               /\ tasks_running' =
                      GaugeInc(tasks_running, <<r.queue, r.taskname, e.hostname>>)
               /\ queued_tasks' = Pop(queued_tasks, k)
               /\ UNCHANGED <<execution_stats, raised>>
       ELSE UNCHANGED <<queued_tasks, queue_length, tasks_running, waiting_time,
                        execution_stats, raised>>

\* get_started_time without the queue_length decrement (lines 65-66 left out)
get_started_time_no_dec(e) ==
    LET k == e.uuid
    IN IF Has(queued_tasks, k)
       THEN LET r == GetItem(queued_tasks, k)
                lag == e.timestamp - r.ts
            IN /\ waiting_time' = Observe(waiting_time, <<r.queue, r.taskname>>, lag)
               /\ queue_length' = queue_length
               /\ tasks_running' =
                      GaugeInc(tasks_running, <<r.queue, r.taskname, e.hostname>>)
               /\ queued_tasks' = SetTs(queued_tasks, k, e.timestamp)
               /\ UNCHANGED <<execution_stats, raised>>
       ELSE UNCHANGED <<queued_tasks, queue_length, tasks_running, waiting_time,
                        execution_stats, raised>>

get_started_time(e) ==
    LET k == e.uuid
    IN IF Has(queued_tasks, k)
       THEN LET r == GetItem(queued_tasks, k)
                lag == e.timestamp - r.ts
            IN /\ waiting_time' = Observe(waiting_time, <<r.queue, r.taskname>>, lag)
               /\ queue_length' = GaugeDec(queue_length, <<r.queue, r.taskname>>)
               /\ tasks_running' =
                      GaugeInc(tasks_running, <<r.queue, r.taskname, e.hostname>>)
               /\ queued_tasks' = SetTs(queued_tasks, k, e.timestamp)
               /\ UNCHANGED <<execution_stats, raised>>
       ELSE UNCHANGED <<queued_tasks, queue_length, tasks_running, waiting_time,
                        execution_stats, raised>>

\* get_task_done without the membership test: the lookup of a missing
\* record raises KeyError
get_task_done_unguarded(e) ==
    LET k == e.uuid
    IN IF Has(queued_tasks, k)
       THEN LET r == GetItem(queued_tasks, k)
                runtime == e.timestamp - r.ts
            IN /\ tasks_running' =
                      GaugeDec(tasks_running, <<r.queue, r.taskname, e.hostname>>)
               /\ execution_stats' =
                      Observe(execution_stats,
                              <<r.queue, r.taskname, e.hostname,
                                strip_prefix_from_event(e.type)>>, runtime)
               /\ queued_tasks' = Pop(queued_tasks, k)
               /\ UNCHANGED <<queue_length, waiting_time, raised>>
       ELSE /\ raised' = TRUE
            /\ UNCHANGED <<queued_tasks, queue_length, tasks_running,
                           waiting_time, execution_stats>>

\* get_task_done that leaves the record in the cache (line 89 left out)
get_task_done_no_pop(e) ==
    LET k == e.uuid
    IN IF Has(queued_tasks, k)
       THEN LET r == GetItem(queued_tasks, k)
                w == r
                runtime == e.timestamp - r.ts
            IN /\ tasks_running' =
                      GaugeDec(tasks_running, <<w.queue, w.taskname, e.hostname>>)
               /\ execution_stats' =
                      Observe(execution_stats,
                              <<w.queue, w.taskname, e.hostname,
                                strip_prefix_from_event(e.type)>>, runtime)
               /\ queued_tasks' = queued_tasks
               /\ UNCHANGED <<queue_length, waiting_time, raised>>
       ELSE UNCHANGED <<queued_tasks, queue_length, tasks_running, waiting_time,
                        execution_stats, raised>>

\* get_task_done that labels its updates with the oldest record instead of
\* the task's own
get_task_done_oldest_record(e) ==
    LET k == e.uuid
    IN IF Has(queued_tasks, k)
       THEN LET r == GetItem(queued_tasks, k)
                w == queued_tasks[1]
                runtime == e.timestamp - r.ts
            IN /\ tasks_running' =
                      GaugeDec(tasks_running, <<w.queue, w.taskname, e.hostname>>)
               /\ execution_stats' =
                      Observe(execution_stats,
                              <<w.queue, w.taskname, e.hostname,
                                strip_prefix_from_event(e.type)>>, runtime)
               /\ queued_tasks' = Pop(queued_tasks, k)
               /\ UNCHANGED <<queue_length, waiting_time, raised>>
       ELSE UNCHANGED <<queued_tasks, queue_length, tasks_running, waiting_time,
                        execution_stats, raised>>

get_task_done(e) ==
    LET k == e.uuid
    IN IF Has(queued_tasks, k)
       THEN LET r == GetItem(queued_tasks, k)
                runtime == e.timestamp - r.ts
            IN /\ tasks_running' =
                      GaugeDec(tasks_running, <<r.queue, r.taskname, e.hostname>>)
               /\ execution_stats' =
                      Observe(execution_stats,
                              <<r.queue, r.taskname, e.hostname,
                                strip_prefix_from_event(e.type)>>, runtime)
               /\ queued_tasks' = Pop(queued_tasks, k)
               /\ UNCHANGED <<queue_length, waiting_time, raised>>
       ELSE UNCHANGED <<queued_tasks, queue_length, tasks_running, waiting_time,
                        execution_stats, raised>>

(***************************************************************************)
(* History of what the handler calls recorded for each task id, read off   *)
(* the change of the instruments and of the cache in the step (not part of *)
(* the program's state).                                                   *)
(*   sent, lag_obs, ql_dec, run_inc, dur_obs  how many Enqueued events,    *)
(*       waiting_time observations, queue_length decrements, tasks_running *)
(*       increments and execution_stats observations there were for the id *)
(*   sent_ts     timestamp of its latest Enqueued event                    *)
(*   started_ts  timestamp of the latest Started event processed for it    *)
(*               since it became resident, -1 when none                    *)
(*   ref         which of the two events was processed last                *)
(*   lag, dur    the values of its latest observations                     *)
(*   done_ts     timestamp of the Terminal event that removed it           *)
(*   last        what happened to it last                                  *)
(*   evicted     whether it was ever evicted                               *)
(*   started     how many Started events were handled while it was resident*)
(*   q_inc, q_dec, r_inc, r_dec  the labels of queue_length and            *)
(*       tasks_running that its latest Enqueued, Started and Terminal      *)
(*       events incremented and decremented, NoLabel when none             *)
(*   started_host, done_host  the hostname of its latest Started event and *)
(*       of its Terminal event                                             *)
(***************************************************************************)
RECURSIVE SumOver(_, _)
SumOver(f, S) ==
    IF S = {} THEN 0
    ELSE LET x == CHOOSE y \in S : TRUE IN f[x] + SumOver(f, S \ {x})
GaugeTotal(g) == SumOver(g, DOMAIN g)
CountTotal(s) == SumOver([l \in DOMAIN s |-> s[l].count], DOMAIN s)
SumTotal(s) == SumOver([l \in DOMAIN s |-> s[l].sum], DOMAIN s)

NoLabel == <<>>
NoHost == "-"
ChangedLabel(g, h) ==
    IF g = h THEN NoLabel ELSE CHOOSE l \in DOMAIN g : g[l] # h[l]

NoAcct == [sent |-> 0, lag_obs |-> 0, ql_dec |-> 0, run_inc |-> 0,
           dur_obs |-> 0, sent_ts |-> -1, started_ts |-> -1, ref |-> "none",
           lag |-> 0, dur |-> 0, done_ts |-> -1, last |-> "none",
           evicted |-> FALSE, started |-> 0,
           q_inc |-> NoLabel, q_dec |-> NoLabel,
           r_inc |-> NoLabel, r_dec |-> NoLabel,
           started_host |-> NoHost, done_host |-> NoHost]

Audit(e) ==
    LET id == e.uuid
        a == acct[id]
        was == Has(queued_tasks, id)
        n_lag == CountTotal(waiting_time') - CountTotal(waiting_time)
        n_dur == CountTotal(execution_stats') - CountTotal(execution_stats)
        n_dec == GaugeTotal(queue_length) - GaugeTotal(queue_length')
        n_inc == GaugeTotal(tasks_running') - GaugeTotal(tasks_running)
        lag == SumTotal(waiting_time') - SumTotal(waiting_time)
        dur == SumTotal(execution_stats') - SumTotal(execution_stats)
        gone == Keys(queued_tasks) \ Keys(queued_tasks')
        mine ==
            CASE e.type = "task-sent" ->
                    [a EXCEPT !.sent = @ + 1, !.sent_ts = e.timestamp,
                              !.started_ts = IF was THEN @ ELSE -1,
                              !.ref = "sent", !.lag = 0, !.dur = 0,
                              !.done_ts = -1, !.last = "sent",
                              !.q_inc = ChangedLabel(queue_length, queue_length'),
                              !.q_dec = IF was THEN @ ELSE NoLabel,
                              !.r_inc = IF was THEN @ ELSE NoLabel,
                              !.r_dec = NoLabel,
                              !.started_host = IF was THEN @ ELSE NoHost,
                              !.done_host = NoHost]
              [] e.type = "task-started" /\ was ->
                    [a EXCEPT !.lag_obs = @ + n_lag, !.ql_dec = @ + n_dec,
                              !.run_inc = @ + n_inc, !.lag = lag,
                              !.started_ts = e.timestamp, !.ref = "started",
                              !.last = "started", !.started = @ + 1,
                              !.q_dec = ChangedLabel(queue_length, queue_length'),
                              !.r_inc = ChangedLabel(tasks_running, tasks_running'),
                              !.started_host = e.hostname]
              [] e.type \in DoneTypes /\ was ->
                    [a EXCEPT !.dur_obs = @ + n_dur, !.dur = dur,
                              !.done_ts = e.timestamp, !.last = "done",
                              !.r_dec = ChangedLabel(tasks_running, tasks_running'),
                              !.done_host = e.hostname]
              [] OTHER -> a
    IN acct' =
        [k \in TaskIds |->
            IF k = id THEN mine
            ELSE IF k \in gone
                 THEN [acct[k] EXCEPT !.sent_ts = -1, !.started_ts = -1,
                                      !.ref = "none", !.lag = 0,
                                      !.last = "evicted", !.evicted = TRUE,
                                      !.q_inc = NoLabel, !.q_dec = NoLabel,
                                      !.r_inc = NoLabel,
                                      !.started_host = NoHost]
                 ELSE acct[k]]

(***************************************************************************)
(* A thread of the event source calling a handler: the call, "with mutex:" *)
(* on entry, the body, and the release on leaving the with block.  The     *)
(* handler is chosen by the event's type at the call; the other fields of  *)
(* the event are first read inside the critical section (lines 40, 56,     *)
(* 75), which is where the model draws them.  task_id is the handler's     *)
(* local variable of that name.                                            *)
(***************************************************************************)
Idle == [fn |-> "none", at |-> "idle"]
Handlers == {"get_sent_time", "get_started_time", "get_task_done"}
NoTask == "-"

Dispatch(t) ==
    /\ pc[t] = Idle
    /\ \E h \in Handlers : pc' = [pc EXCEPT ![t] = [fn |-> h, at |-> "lock"]]
    /\ n_events' = n_events + 1
    /\ UNCHANGED process
    /\ UNCHANGED <<queued_tasks, metrics, tasks_captured, mutex, task_id,
                   raised, main_pc, acct>>

\* entering the with block without waiting for the lock to be free
Acquire_without_waiting(t) ==
    /\ pc[t].at = "lock"
    /\ mutex' = t
    /\ pc' = [pc EXCEPT ![t].at = "body"]
    /\ UNCHANGED process
    /\ UNCHANGED <<queued_tasks, metrics, tasks_captured, task_id, raised,
                   main_pc, n_events, acct>>

Acquire(t) ==
    /\ pc[t].at = "lock"
    /\ mutex = NoThread
    /\ mutex' = t
    /\ pc' = [pc EXCEPT ![t].at = "body"]
    /\ UNCHANGED process
    /\ UNCHANGED <<queued_tasks, metrics, tasks_captured, task_id, raised,
                   main_pc, n_events, acct>>

Body(t, e) ==
    /\ pc' = [pc EXCEPT ![t].at = "unlock"]
    /\ task_id' = [task_id EXCEPT ![t] = e.uuid]
    /\ Audit(e)
    /\ UNCHANGED process
    /\ UNCHANGED <<tasks_captured, mutex, main_pc, n_events>>

SentBody(t) ==
    /\ pc[t] = [fn |-> "get_sent_time", at |-> "body"]
    /\ \E e \in SentEvents : get_sent_time(e) /\ Body(t, e)

StartedBody(t) ==
    /\ pc[t] = [fn |-> "get_started_time", at |-> "body"]
    /\ \E e \in StartedEvents : get_started_time(e) /\ Body(t, e)

DoneBody(t) ==
    /\ pc[t] = [fn |-> "get_task_done", at |-> "body"]
    /\ \E e \in DoneEvents : get_task_done(e) /\ Body(t, e)

Release(t) ==
    /\ pc[t].at = "unlock"
    /\ mutex' = NoThread
    /\ pc' = [pc EXCEPT ![t] = Idle]
    /\ task_id' = [task_id EXCEPT ![t] = NoTask]
    /\ UNCHANGED process
    /\ UNCHANGED <<queued_tasks, metrics, tasks_captured, raised, main_pc,
                   n_events, acct>>

\* the event source of Spec: any thread, any event, MaxEvents events
Deliver(t) ==
    /\ main_pc = "capturing"
    /\ n_events < MaxEvents
    /\ Dispatch(t)

(***************************************************************************)
(* The scrape: the HTTP server thread calls the function set on            *)
(* tasks_captured, lambda: len(queued_tasks).  No lock is taken.           *)
(***************************************************************************)
NeverRead == -1

\* the gauge set once, when it is defined, instead of a function read on
\* every scrape
Scrape_set_once ==
    /\ main_pc \in {"serving", "capturing"}
    /\ tasks_captured' = 0
    /\ UNCHANGED process
    /\ UNCHANGED <<queued_tasks, metrics, mutex, pc, task_id, raised, main_pc,
                   n_events, acct>>

Scrape ==
    /\ main_pc \in {"serving", "capturing"}
    /\ tasks_captured' = Len(queued_tasks)
    /\ UNCHANGED process
    /\ UNCHANGED <<queued_tasks, metrics, mutex, pc, task_id, raised, main_pc,
                   n_events, acct>>

(***************************************************************************)
(* __main__ and the module-level start-up.                                 *)
(***************************************************************************)
MainThread == "t1"

\* os.environ.get("BROKER_URL", False): the setting may be missing, empty
\* or a URL; "not BROKER_URL" holds for the first two
Environ == {"missing", "empty", "amqp://broker"}
Falsy(v) == v \in {"missing", "empty"}
\* the status the operating system reports for exit(code)
ExitStatus(code) == code % 256

\* the check that logs the error and goes on (exit(-1) left out)
CheckBrokerUrl_no_exit ==
    /\ main_pc = "start"
    /\ main_pc' = "loaded"
    /\ UNCHANGED process
    /\ UNCHANGED <<queued_tasks, metrics, tasks_captured, mutex, pc, task_id,
                   raised, n_events, acct>>

CheckBrokerUrl ==
    /\ main_pc = "start"
    /\ IF Falsy(BROKER_URL)
       THEN main_pc' = "exit_error" /\ exit_status' = <<ExitStatus(-1)>>
       ELSE main_pc' = "loaded" /\ exit_status' = exit_status
    /\ BROKER_URL' = BROKER_URL
    /\ UNCHANGED <<queued_tasks, metrics, tasks_captured, mutex, pc, task_id,
                   raised, n_events, acct>>

StartHttpServer ==
    /\ main_pc = "loaded"
    /\ main_pc' = "serving"
    /\ UNCHANGED process
    /\ UNCHANGED <<queued_tasks, metrics, tasks_captured, mutex, pc, task_id,
                   raised, n_events, acct>>

\* my_monitor(app): open the connection, register the handlers, capture
Connect ==
    /\ main_pc = "serving"
    /\ main_pc' = "capturing"
    /\ UNCHANGED process
    /\ UNCHANGED <<queued_tasks, metrics, tasks_captured, mutex, pc, task_id,
                   raised, n_events, acct>>

\* recv.capture(limit=MAX_TASKS_CAPTURED): one event per iteration of the
\* event loop, handled synchronously on the main thread
Capture ==
    /\ main_pc = "capturing"
    /\ n_events < MAX_TASKS_CAPTURED
    /\ Dispatch(MainThread)

\* the event loop has run limit iterations: capture returns, my_monitor
\* returns and the process ends
CaptureReturn ==
    /\ main_pc = "capturing"
    /\ n_events = MAX_TASKS_CAPTURED
    /\ pc[MainThread] = Idle
    /\ main_pc' = "returned"
    /\ exit_status' = <<ExitStatus(0)>>
    /\ BROKER_URL' = BROKER_URL
    /\ UNCHANGED <<queued_tasks, metrics, tasks_captured, mutex, pc, task_id,
                   raised, n_events, acct>>

(***************************************************************************)
(* Specifications.                                                         *)
(***************************************************************************)
Constructed ==
    /\ queued_tasks = <<>>
    /\ queue_length = [l \in QLabels |-> 0]
    /\ tasks_running = [l \in RLabels |-> 0]
    /\ waiting_time = [l \in QLabels |-> [count |-> 0, sum |-> 0]]
    /\ execution_stats = [l \in ELabels |-> [count |-> 0, sum |-> 0]]
    /\ tasks_captured = NeverRead
    /\ mutex = NoThread
    /\ pc = [t \in Threads |-> Idle]
    /\ task_id = [t \in Threads |-> NoTask]
    /\ raised = FALSE
    /\ n_events = 0
    /\ exit_status = <<>>
    /\ acct = [id \in TaskIds |-> NoAcct]

Init == Constructed /\ main_pc = "capturing" /\ BROKER_URL = "amqp://broker"

Next ==
    \/ \E t \in Threads : Deliver(t)
    \/ \E t \in Threads : Acquire(t)
    \/ \E t \in Threads : SentBody(t)
    \/ \E t \in Threads : StartedBody(t)
    \/ \E t \in Threads : DoneBody(t)
    \/ \E t \in Threads : Release(t)
    \/ Scrape

Spec == Init /\ [][Next]_vars

MainInit == Constructed /\ main_pc = "start" /\ BROKER_URL \in Environ

MainNext ==
    \/ CheckBrokerUrl
    \/ StartHttpServer
    \/ Connect
    \/ Capture
    \/ Acquire(MainThread)
    \/ SentBody(MainThread)
    \/ StartedBody(MainThread)
    \/ DoneBody(MainThread)
    \/ Release(MainThread)
    \/ CaptureReturn
    \/ Scrape

MainSpec == MainInit /\ [][MainNext]_vars

(***************************************************************************)
(* Properties.                                                             *)
(***************************************************************************)
Resident(id) == Has(queued_tasks, id)
InHandler(t) == pc[t].at \in {"body", "unlock"}
\* the step in which thread t runs the body of handler fn
BodyStep(t, fn) == pc[t] = [fn |-> fn, at |-> "body"] /\ pc'[t].at = "unlock"

\* C1: the cache never holds more than MAX_TASKS_CAPTURED records.
C1_CacheBounded == Len(queued_tasks) <= MAX_TASKS_CAPTURED

C1_Witness ==
    /\ Len(queued_tasks) = MAX_TASKS_CAPTURED
    /\ \E id \in TaskIds : acct[id].last = "evicted"

\* C2: no queue_length gauge is ever negative.
C2_QueueLengthNonNegative == \A l \in QLabels : queue_length[l] >= 0

\* C3: the waiting time observed by a Started event for a resident task is
\* that event's timestamp minus the timestamp of the task's Enqueued event.
C3_LagIsStartedMinusEnqueued ==
    \A id \in TaskIds :
        acct[id].last = "started"
            => acct[id].lag = acct[id].started_ts - acct[id].sent_ts

\* C4 as stated: the duration observed by a Terminal event for a resident
\* task for which a Started event was processed is the Terminal timestamp
\* minus the Started timestamp.
C4_DurationIsDoneMinusStarted ==
    \A id \in TaskIds :
        (acct[id].last = "done" /\ acct[id].started_ts # -1)
            => acct[id].dur = acct[id].done_ts - acct[id].started_ts

\* C4 as amended: the same, for a resident task for which no Enqueued event
\* was processed after its latest Started event.
C4_DurationIsDoneMinusLatestStarted ==
    \A id \in TaskIds :
        (acct[id].last = "done" /\ acct[id].ref = "started")
            => /\ acct[id].dur_obs >= 1
               /\ acct[id].dur = acct[id].done_ts - acct[id].started_ts

C4_Witness ==
    \E id \in TaskIds :
        /\ acct[id].last = "done"
        /\ acct[id].ref = "started"
        /\ acct[id].started_ts # acct[id].sent_ts
        /\ acct[id].dur = 1

\* C5: a Started or Terminal event for a task id that is not in the cache
\* changes no gauge, no observation set and not the cache, and raises
\* nothing.
C5_AbsentIsNoOp ==
    [][\A t \in Threads :
          (/\ BodyStep(t, "get_started_time") \/ BodyStep(t, "get_task_done")
           /\ ~Resident(task_id'[t]))
              => /\ UNCHANGED <<queued_tasks, metrics>>
                 /\ raised' = FALSE]_vars

C5_Witness ==
    \E t \in Threads :
        /\ pc[t].at = "unlock"
        /\ pc[t].fn \in {"get_started_time", "get_task_done"}
        /\ acct[task_id[t]].last = "evicted"

C7_MutualExclusion ==
    /\ [](/\ Cardinality({t \in Threads : InHandler(t)}) <= 1
          /\ \A t \in Threads : InHandler(t) => mutex = t)
    /\ [][<<queued_tasks, metrics>>' # <<queued_tasks, metrics>>
             => mutex # NoThread /\ pc[mutex].at = "body"]_vars

C7_Witness ==
    \E t, u \in Threads : pc[t].at = "body" /\ pc[u].at = "lock"

\* C8: the tasks_captured gauge never reads the cache size while a handler
\* holds the mutex.
C8_ScrapeOutsideCriticalSection ==
    [][tasks_captured' # tasks_captured => mutex = NoThread]_vars

\* C9: once the monitor captures events it goes on capturing: capture never
\* ends after a finite number of events.
C9_CaptureNeverEnds ==
    [][main_pc = "capturing" => main_pc' = "capturing"]_vars

\* C10: for a task id enqueued once there is at most one waiting_time
\* observation, one queue_length decrement, one tasks_running increment and
\* one execution_stats observation.
C10_ExactlyOnce ==
    \A id \in TaskIds :
        acct[id].sent = 1
            => /\ acct[id].lag_obs <= 1
               /\ acct[id].ql_dec <= 1
               /\ acct[id].run_inc <= 1
               /\ acct[id].dur_obs <= 1

\* C11: whenever the tasks_captured gauge is read it returns the number of
\* records in the cache at that moment, and no handler step sets it.
C11_CapturedIsCacheSize ==
    [][/\ tasks_captured' # tasks_captured
            => /\ tasks_captured' = Len(queued_tasks)
               /\ UNCHANGED <<queued_tasks, metrics, pc>>
       /\ (\E t \in Threads : pc'[t] # pc[t])
            => tasks_captured' = tasks_captured]_vars

C11_Witness ==
    /\ tasks_captured >= 1
    /\ tasks_captured = Len(queued_tasks)
    /\ \E t \in Threads : pc[t].at = "body"

\* C12: a task id becomes resident only in an Enqueued step for it; it stops
\* being resident only in a Terminal step for it or in an Enqueued step for
\* another, new id into a full cache; a Started step adds and removes none.
C12_ResidencyChanges ==
    [][\A id \in TaskIds :
          /\ (~Resident(id) /\ Has(queued_tasks', id))
                => \E t \in Threads :
                      BodyStep(t, "get_sent_time") /\ task_id'[t] = id
          /\ (Resident(id) /\ ~Has(queued_tasks', id))
                => \E t \in Threads :
                      \/ BodyStep(t, "get_task_done") /\ task_id'[t] = id
                      \/ /\ BodyStep(t, "get_sent_time")
                         /\ task_id'[t] # id
                         /\ ~Resident(task_id'[t])
                         /\ Len(queued_tasks) = MAX_TASKS_CAPTURED
          /\ (\E t \in Threads : BodyStep(t, "get_started_time"))
                => (Resident(id) <=> Has(queued_tasks', id))]_vars

C12_Witness ==
    \E t \in Threads :
        /\ pc[t] = [fn |-> "get_task_done", at |-> "unlock"]
        /\ acct[task_id[t]].last = "done"
        /\ ~Resident(task_id[t])
        /\ \E id \in TaskIds : acct[id].last = "evicted"

\* the task went through Enqueued, Started, Terminal once each, in that
\* order, on one worker, and was never evicted
OnceEach(id) ==
    /\ acct[id].sent = 1
    /\ acct[id].started = 1
    /\ acct[id].last = "done"
    /\ acct[id].ref = "started"
    /\ ~acct[id].evicted
    /\ acct[id].started_host = acct[id].done_host

\* C13: after Enqueued, Started, Terminal once each in that order with one
\* worker and no eviction, the task's decrements undid its increments on the
\* same labels (the gauges are back at their values when nothing else was
\* recorded), one waiting time and one duration were observed, with the
\* differences of the timestamps, and the task id has left the cache.
C13_FullLifecycle ==
    \A id \in TaskIds :
        OnceEach(id)
            => /\ ~Resident(id)
               /\ acct[id].lag_obs = 1 /\ acct[id].dur_obs = 1
               /\ acct[id].ql_dec = 1 /\ acct[id].run_inc = 1
               /\ acct[id].q_inc # NoLabel /\ acct[id].q_dec = acct[id].q_inc
               /\ acct[id].r_inc # NoLabel /\ acct[id].r_dec = acct[id].r_inc
               /\ acct[id].lag = acct[id].started_ts - acct[id].sent_ts
               /\ acct[id].dur = acct[id].done_ts - acct[id].started_ts
               /\ (\A o \in TaskIds \ {id} : acct[o] = NoAcct)
                     => /\ \A l \in QLabels : queue_length[l] = 0
                        /\ \A l \in RLabels : tasks_running[l] = 0
                        /\ CountTotal(waiting_time) = 1
                        /\ CountTotal(execution_stats) = 1

C13_Witness ==
    \E id \in TaskIds :
        /\ OnceEach(id)
        /\ acct[id].sent_ts = 0 /\ acct[id].started_ts = 1 /\ acct[id].done_ts = 1
        /\ acct[id].lag = 1 /\ acct[id].dur = 0
        /\ \A o \in TaskIds \ {id} : acct[o] = NoAcct

\* C14: with BROKER_URL missing the process ends with a non-zero status
\* before the metrics server starts, before a connection is opened and before
\* any event is taken; no handler runs and nothing is scraped.
C14_MissingBrokerUrlExits ==
    Falsy(BROKER_URL)
        => /\ main_pc \in {"start", "exit_error"}
           /\ main_pc = "exit_error"
                 => exit_status # <<>> /\ exit_status[1] # 0
           /\ n_events = 0
           /\ \A t \in Threads : pc[t] = Idle
           /\ mutex = NoThread
           /\ queued_tasks = <<>>
           /\ tasks_captured = NeverRead

C14_Witness ==
    /\ BROKER_URL = "missing"
    /\ main_pc = "exit_error"
    /\ exit_status = <<255>>

\* the labels of instrument g that the step changes
Touched(g, h) == {l \in DOMAIN g : g[l] # h[l]}
AllTouched ==
    Touched(queue_length, queue_length') \cup Touched(waiting_time, waiting_time')
        \cup Touched(tasks_running, tasks_running')
        \cup Touched(execution_stats, execution_stats')
StartedOrDoneStep(t) ==
    /\ BodyStep(t, "get_started_time") \/ BodyStep(t, "get_task_done")
    /\ Resident(task_id'[t])

\* C15 as stated: every label value of an update made by a Started or
\* Terminal event is a value of the task's record.
C15_AllLabelsFromRecord ==
    [][\A t \in Threads :
          StartedOrDoneStep(t) =>
            LET r == GetItem(queued_tasks, task_id'[t])
            IN \A l \in AllTouched :
                  \A i \in 1..Len(l) : l[i] \in {r.queue, r.taskname}]_vars

\* C15 as amended: the queue and task name label values of such an update
\* are those of the task's record; the worker label value is the event's
\* hostname.
C15_QueueAndNameFromRecord ==
    [][\A t \in Threads :
          StartedOrDoneStep(t) =>
            LET k == task_id'[t]
                r == GetItem(queued_tasks, k)
                host == IF BodyStep(t, "get_started_time")
                        THEN acct'[k].started_host ELSE acct'[k].done_host
            IN /\ AllTouched # {}
               /\ \A l \in AllTouched :
                     /\ l[1] = r.queue
                     /\ l[2] = r.taskname
                     /\ Len(l) >= 3 => l[3] = host]_vars

C15_Witness ==
    \E t \in Threads :
        /\ pc[t] = [fn |-> "get_task_done", at |-> "unlock"]
        /\ acct[task_id[t]].last = "done"
        /\ acct[task_id[t]].r_dec # NoLabel
        /\ acct[task_id[t]].r_dec[1] = "q2"
        /\ Len(queued_tasks) = 1 /\ queued_tasks[1].queue = "q1"

\* C16: a Started event for a resident task sets the timestamp of its record
\* to the event's and changes nothing else in the cache; it observes one
\* waiting time, decrements one queue_length and increments one
\* tasks_running.
C16_StartedFrame ==
    [][\A t \in Threads :
          (BodyStep(t, "get_started_time") /\ Resident(task_id'[t])) =>
            LET k == task_id'[t]
                d == queued_tasks
                i == IndexOf(queued_tasks, k)
            IN /\ Len(queued_tasks') = Len(d)
               /\ \A j \in 1..Len(d) : j # i => queued_tasks'[j] = d[j]
               /\ queued_tasks'[i] = [d[i] EXCEPT !.ts = acct'[k].started_ts]
               /\ \E l \in QLabels :
                     /\ waiting_time' =
                           [waiting_time EXCEPT ![l].count = @ + 1,
                               ![l].sum = @ + acct'[k].started_ts - d[i].ts]
                     /\ queue_length' = [queue_length EXCEPT ![l] = @ - 1]
               /\ \E l \in RLabels :
                     tasks_running' = [tasks_running EXCEPT ![l] = @ + 1]
               /\ UNCHANGED execution_stats]_vars

C16_Witness ==
    \E t \in Threads :
        /\ pc[t] = [fn |-> "get_started_time", at |-> "unlock"]
        /\ Resident(task_id[t])
        /\ Len(queued_tasks) = MAX_TASKS_CAPTURED
        /\ queued_tasks[1].uuid = task_id[t]
        /\ acct[task_id[t]].lag_obs = 1

\* C17: no tasks_running gauge is ever negative.
C17_TasksRunningNonNegative == \A l \in RLabels : tasks_running[l] >= 0

\* C18: as long as nothing was evicted, queue_length[q, t] is the number of
\* resident records of queue q and task name t that were enqueued and have
\* not started.
Waiting(l) ==
    {i \in 1..Len(queued_tasks) :
        /\ <<queued_tasks[i].queue, queued_tasks[i].taskname>> = l
        /\ acct[queued_tasks[i].uuid].ref = "sent"}
C18_QueueLengthCountsWaiting ==
    (\A id \in TaskIds : ~acct[id].evicted)
        => \A l \in QLabels : queue_length[l] = Cardinality(Waiting(l))

\* C19: the Terminal event of a started task decrements the tasks_running
\* label that its Started event incremented.
C19_DecrementsWhatStartedIncremented ==
    \A id \in TaskIds :
        (acct[id].last = "done" /\ acct[id].ref = "started")
            => acct[id].r_dec = acct[id].r_inc

====
